---- MODULE Spec2Model ----
(***************************************************************************)
(* LearnerBuilder of burn-train (src/burn-train/src/learner/builder.rs).   *)
(*                                                                         *)
(* The builder is a value that is moved through a chain of configuration   *)
(* calls and finally consumed by build, which produces the Learner.  Each  *)
(* method of the builder is a pure operator on the builder record, and     *)
(* each call of a method is an action on the caller's bindings.            *)
(***************************************************************************)
EXTENDS Integers, Sequences, FiniteSets, TLC

\* ---------------------------------------------------------------- bounds
\* The largest count given to num_epochs, checkpoint and grads_accumulation.
MaxCount == 1
\* The largest retention count given to with_file_checkpointer.
MaxKeep == 2
\* The largest number of metrics registered on one builder.
MaxMetrics == 1

\* ------------------------------------------------------- input universes
Dirs == {"/tmp/run", "out"}
DefaultDevice == "dev0"
Recorders == {"bin", "json"}
TrainLoggers == {[kind |-> "InMemoryMetricLogger", id |-> 1]}
ValidLoggers == {[kind |-> "InMemoryMetricLogger", id |-> 2]}
NumericMetrics == {"loss"}
Metrics == NumericMetrics
Models == {"modelA", "modelB"}
Optims == {"sgd"}
Schedulers == {"constant"}

DeviceLists == {<< >>, <<DefaultDevice>>, <<"dev1">>, <<"dev1", DefaultDevice>>}

\* --------------------------------------------------------------- options
None == [some |-> FALSE]
Some(x) == [some |-> TRUE, value |-> x]

\* The state of a binding whose value has been moved out of it.
Moved == [moved |-> TRUE]
\* No configuration call has been made yet.
NoReceiver == [receiver |-> FALSE]
\* No Learner has been built yet.
NoLearner == [built |-> FALSE]

\* ------------------------------------------- collaborators of the builder
CLIDashboardRenderer_new == [kind |-> "CLIDashboardRenderer"]

FileMetricLogger_new(directory) ==
    [kind |-> "FileMetricLogger", directory |-> directory]

Dashboard_new(renderer, logger_train, logger_valid) ==
    [renderer |-> renderer,
     logger_train |-> logger_train,
     logger_valid |-> logger_valid,
     metrics_train |-> << >>,
     metrics_valid |-> << >>]

replace_loggers(dashboard, logger_train, logger_valid) ==
    [dashboard EXCEPT !.logger_train = logger_train,
                      !.logger_valid = logger_valid]

register_train(dashboard, metric) ==
    [dashboard EXCEPT !.metrics_train =
        Append(@, [name |-> metric, plot |-> FALSE])]

register_valid(dashboard, metric) ==
    [dashboard EXCEPT !.metrics_valid =
        Append(@, [name |-> metric, plot |-> FALSE])]

register_train_plot(dashboard, metric) ==
    [dashboard EXCEPT !.metrics_train =
        Append(@, [name |-> metric, plot |-> TRUE])]

register_valid_plot(dashboard, metric) ==
    [dashboard EXCEPT !.metrics_valid =
        Append(@, [name |-> metric, plot |-> TRUE])]

FileCheckpointer_new(recorder, directory, name, num_keep) ==
    [kind |-> "FileCheckpointer",
     recorder |-> recorder,
     directory |-> directory,
     name |-> name,
     num_keep |-> num_keep]

AsyncTrainerCallback_new(callback) ==
    [kind |-> "AsyncTrainerCallback", callback |-> callback]

AsyncCheckpointer_new(checkpointer) ==
    [kind |-> "AsyncCheckpointer", checkpointer |-> checkpointer]

\* The log files that exist after the run log at file_path is initialised.
update_log_file(files, file_path) == files \cup {file_path}

\* ---------------------------------------------- methods of LearnerBuilder
\* new with both default loggers rooted at the training directory.
new_same_logger_root(directory) ==
    [dashboard |-> Dashboard_new(CLIDashboardRenderer_new,
                                 FileMetricLogger_new(directory \o "/train"),
                                 FileMetricLogger_new(directory \o "/train")),
     num_epochs |-> 1,
     checkpoint |-> None,
     checkpointer_model |-> None,
     checkpointer_optimizer |-> None,
     checkpointer_scheduler |-> None,
     directory |-> directory,
     grad_accumulation |-> None,
     devices |-> <<DefaultDevice>>]

new(directory) ==
    [dashboard |-> Dashboard_new(CLIDashboardRenderer_new,
                                 FileMetricLogger_new(directory \o "/train"),
                                 FileMetricLogger_new(directory \o "/valid")),
     num_epochs |-> 1,
     checkpoint |-> None,
     checkpointer_model |-> None,
     checkpointer_optimizer |-> None,
     checkpointer_scheduler |-> None,
     directory |-> directory,
     grad_accumulation |-> None,
     devices |-> <<DefaultDevice>>]

metric_loggers(self, logger_train, logger_valid) ==
    [self EXCEPT !.dashboard = replace_loggers(@, logger_train, logger_valid)]

metric_train(self, metric) ==
    [self EXCEPT !.dashboard = register_train(@, metric)]

metric_valid(self, metric) ==
    [self EXCEPT !.dashboard = register_valid(@, metric)]

\* grads_accumulation that also forgets the resume epoch.
grads_accumulation_resets_checkpoint(self, accumulation) ==
    [self EXCEPT !.grad_accumulation = Some(accumulation),
                 !.checkpoint = None]

grads_accumulation(self, accumulation) ==
    [self EXCEPT !.grad_accumulation = Some(accumulation)]

metric_train_plot(self, metric) ==
    [self EXCEPT !.dashboard = register_train_plot(@, metric)]

metric_valid_plot(self, metric) ==
    [self EXCEPT !.dashboard = register_valid_plot(@, metric)]

num_epochs(self, n) ==
    [self EXCEPT !.num_epochs = n]

devices(self, devs) ==
    [self EXCEPT !.devices = devs]

checkpoint(self, epoch) ==
    [self EXCEPT !.checkpoint = Some(epoch)]

\* with_file_checkpointer that raises num_keep to the safe minimum of two.
with_file_checkpointer_min_two(self, num_keep, recorder) ==
    LET keep == IF num_keep < 2 THEN 2 ELSE num_keep IN
    [self EXCEPT
        !.checkpointer_model = Some(FileCheckpointer_new(
            recorder, self.directory \o "/checkpoint", "model", keep)),
        !.checkpointer_optimizer = Some(FileCheckpointer_new(
            recorder, self.directory \o "/checkpoint", "optim", keep)),
        !.checkpointer_scheduler = Some(FileCheckpointer_new(
            recorder, self.directory \o "/checkpoint", "scheduler", keep))]

\* with_file_checkpointer that registers no scheduler checkpointer.
with_file_checkpointer_no_scheduler(self, num_keep, recorder) ==
    [self EXCEPT
        !.checkpointer_model = Some(FileCheckpointer_new(
            recorder, self.directory \o "/checkpoint", "model", num_keep)),
        !.checkpointer_optimizer = Some(FileCheckpointer_new(
            recorder, self.directory \o "/checkpoint", "optim", num_keep))]

with_file_checkpointer(self, num_keep, recorder) ==
    [self EXCEPT
        !.checkpointer_model = Some(FileCheckpointer_new(
            recorder, self.directory \o "/checkpoint", "model", num_keep)),
        !.checkpointer_optimizer = Some(FileCheckpointer_new(
            recorder, self.directory \o "/checkpoint", "optim", num_keep)),
        !.checkpointer_scheduler = Some(FileCheckpointer_new(
            recorder, self.directory \o "/checkpoint", "scheduler", num_keep))]

\* The path of the run log that build initialises.
init_logger(self) == self.directory \o "/experiment.log"

\* An optional checkpointer handed over without its async wrapper.
wrap_checkpointer_bare(opt) == opt

\* The async wrapper of an optional checkpointer (the match arms of build).
wrap_checkpointer(opt) ==
    IF opt.some THEN Some(AsyncCheckpointer_new(opt.value)) ELSE None

\* The Learner that build returns.
build(self, model, optim, lr_scheduler) ==
    [model |-> model,
     optim |-> optim,
     lr_scheduler |-> lr_scheduler,
     num_epochs |-> self.num_epochs,
     callback |-> AsyncTrainerCallback_new(self.dashboard),
     checkpoint |-> self.checkpoint,
     checkpointer_model |-> wrap_checkpointer(self.checkpointer_model),
     checkpointer_optimizer |-> wrap_checkpointer(self.checkpointer_optimizer),
     checkpointer_scheduler |-> wrap_checkpointer(self.checkpointer_scheduler),
     grad_accumulation |-> self.grad_accumulation,
     devices |-> self.devices]

\* The effects of a build that initialises the run log last.
build_effects_log_last(self) ==
    <<[op |-> "AsyncTrainerCallback::new", arg |-> "dashboard"]>>
    \o (IF self.checkpointer_optimizer.some
        THEN <<[op |-> "AsyncCheckpointer::new", arg |-> "optim"]>>
        ELSE << >>)
    \o (IF self.checkpointer_model.some
        THEN <<[op |-> "AsyncCheckpointer::new", arg |-> "model"]>>
        ELSE << >>)
    \o (IF self.checkpointer_scheduler.some
        THEN <<[op |-> "AsyncCheckpointer::new", arg |-> "scheduler"]>>
        ELSE << >>)
    \o <<[op |-> "update_log_file", arg |-> init_logger(self)]>>

\* The effects of build, in the order in which the body performs them.
build_effects(self) ==
    <<[op |-> "update_log_file", arg |-> init_logger(self)],
      [op |-> "AsyncTrainerCallback::new", arg |-> "dashboard"]>>
    \o (IF self.checkpointer_optimizer.some
        THEN <<[op |-> "AsyncCheckpointer::new", arg |-> "optim"]>>
        ELSE << >>)
    \o (IF self.checkpointer_model.some
        THEN <<[op |-> "AsyncCheckpointer::new", arg |-> "model"]>>
        ELSE << >>)
    \o (IF self.checkpointer_scheduler.some
        THEN <<[op |-> "AsyncCheckpointer::new", arg |-> "scheduler"]>>
        ELSE << >>)

\* A configuration method that borrows its receiver and returns a copy.
receiver_after_call_borrowed(self) == self

\* A build that borrows the builder.
builder_after_build_borrowed(self) == self

\* Every configuration method takes `mut self`: the call moves the builder
\* out of the binding it is invoked on, and the caller holds the result only.
receiver_after_call(self) == Moved

\* build takes `self`: the builder is moved into build and is gone afterwards.
builder_after_build(self) == Moved

\* ------------------------------------------------------------------ state
VARIABLES
    builder,     \* the builder value the caller holds, or Moved
    receiver,    \* the binding the latest configuration call was invoked on
    learner,     \* the Learner returned by build, or NoLearner
    log_files,   \* the run-log files that have been initialised
    events,      \* the effects performed so far, in order
    dir0,        \* the directory given to new
    last,        \* per setter, the argument of its latest call
    buildArgs    \* the arguments given to build

vars == <<builder, receiver, learner, log_files, events, dir0, last,
          buildArgs>>

NoCalls == [num_epochs |-> None, devices |-> None, checkpoint |-> None,
            grad_accumulation |-> None, with_file_checkpointer |-> None,
            metric_loggers |-> None]

Init ==
    /\ dir0 \in Dirs
    /\ builder = new(dir0)
    /\ receiver = NoReceiver
    /\ learner = NoLearner
    /\ log_files = {}
    /\ events = << >>
    /\ last = NoCalls
    /\ buildArgs = None

\* A configuration call on the live builder, returning result.
Configure(result) ==
    /\ builder # Moved
    /\ builder' = result
    /\ receiver' = receiver_after_call(builder)
    /\ UNCHANGED <<learner, log_files, events, dir0, buildArgs>>

MetricCount(self) ==
    Len(self.dashboard.metrics_train) + Len(self.dashboard.metrics_valid)

MetricLoggers ==
    \E lt \in TrainLoggers, lv \in ValidLoggers :
        /\ Configure(metric_loggers(builder, lt, lv))
        /\ last' = [last EXCEPT !.metric_loggers = Some(<<lt, lv>>)]

MetricTrain ==
    \E m \in Metrics :
        /\ builder # Moved /\ MetricCount(builder) < MaxMetrics
        /\ Configure(metric_train(builder, m))
        /\ UNCHANGED last

MetricValid ==
    \E m \in Metrics :
        /\ builder # Moved /\ MetricCount(builder) < MaxMetrics
        /\ Configure(metric_valid(builder, m))
        /\ UNCHANGED last

GradsAccumulation ==
    \E g \in 0..MaxCount :
        /\ Configure(grads_accumulation(builder, g))
        /\ last' = [last EXCEPT !.grad_accumulation = Some(g)]

MetricTrainPlot ==
    \E m \in NumericMetrics :
        /\ builder # Moved /\ MetricCount(builder) < MaxMetrics
        /\ Configure(metric_train_plot(builder, m))
        /\ UNCHANGED last

MetricValidPlot ==
    \E m \in NumericMetrics :
        /\ builder # Moved /\ MetricCount(builder) < MaxMetrics
        /\ Configure(metric_valid_plot(builder, m))
        /\ UNCHANGED last

NumEpochs ==
    \E n \in 0..MaxCount :
        /\ Configure(num_epochs(builder, n))
        /\ last' = [last EXCEPT !.num_epochs = Some(n)]

SetDevices ==
    \E v \in DeviceLists :
        /\ Configure(devices(builder, v))
        /\ last' = [last EXCEPT !.devices = Some(v)]

Checkpoint ==
    \E e \in 0..MaxCount :
        /\ Configure(checkpoint(builder, e))
        /\ last' = [last EXCEPT !.checkpoint = Some(e)]

WithFileCheckpointer ==
    \E k \in 1..MaxKeep, r \in Recorders :
        /\ Configure(with_file_checkpointer(builder, k, r))
        /\ last' = [last EXCEPT !.with_file_checkpointer =
                        Some([num_keep |-> k, recorder |-> r])]

Build ==
    \E m \in Models, o \in Optims, s \in Schedulers :
        /\ builder # Moved
        /\ log_files' = update_log_file(log_files, init_logger(builder))
        /\ events' = events \o build_effects(builder)
        /\ learner' = build(builder, m, o, s)
        /\ builder' = builder_after_build(builder)
        /\ buildArgs' = Some([model |-> m, optim |-> o, lr_scheduler |-> s])
        /\ UNCHANGED <<receiver, dir0, last>>

Next ==
    \/ MetricLoggers
    \/ MetricTrain
    \/ MetricValid
    \/ GradsAccumulation
    \/ MetricTrainPlot
    \/ MetricValidPlot
    \/ NumEpochs
    \/ SetDevices
    \/ Checkpoint
    \/ WithFileCheckpointer
    \/ Build

Spec == Init /\ [][Next]_vars

\* ----------------------------------------------------------- vocabulary
Live == builder # Moved
Built == learner # NoLearner

\* A step that is a configuration call: the caller holds a builder afterwards.
ConfigStep == builder # Moved /\ builder' # Moved

\* The builder fields outside `fields` are the same before and after the step.
OnlyChanges(fields) ==
    /\ ConfigStep
    /\ DOMAIN builder' = DOMAIN builder
    /\ \A f \in DOMAIN builder \ fields : builder'[f] = builder[f]

SettingGroups ==
    {{"dashboard"}, {"num_epochs"}, {"checkpoint"}, {"grad_accumulation"},
     {"devices"},
     {"checkpointer_model", "checkpointer_optimizer", "checkpointer_scheduler"}}

ExpectedCheckpointer(dir, tag, keep, rec) ==
    [kind |-> "FileCheckpointer", recorder |-> rec,
     directory |-> dir \o "/checkpoint", name |-> tag, num_keep |-> keep]

AllOrNone(r) ==
    /\ r.checkpointer_model.some = r.checkpointer_optimizer.some
    /\ r.checkpointer_model.some = r.checkpointer_scheduler.some

\* ------------------------------------------------------------------ C1
\* C1: right after new(d), with no configuration call applied, the builder
\* has num_epochs 1, no checkpointer, no resume epoch, no gradient
\* accumulation, the one default device, and file loggers under d/train and
\* d/valid; a Learner built from that state carries exactly these values.
C1_Defaults ==
    receiver = NoReceiver =>
        /\ Live =>
            /\ builder.num_epochs = 1
            /\ builder.checkpointer_model = None
            /\ builder.checkpointer_optimizer = None
            /\ builder.checkpointer_scheduler = None
            /\ builder.checkpoint = None
            /\ builder.grad_accumulation = None
            /\ builder.devices = <<DefaultDevice>>
            /\ builder.directory = dir0
            /\ builder.dashboard.logger_train =
                 [kind |-> "FileMetricLogger", directory |-> dir0 \o "/train"]
            /\ builder.dashboard.logger_valid =
                 [kind |-> "FileMetricLogger", directory |-> dir0 \o "/valid"]
        /\ Built =>
            /\ learner.num_epochs = 1
            /\ learner.checkpointer_model = None
            /\ learner.checkpointer_optimizer = None
            /\ learner.checkpointer_scheduler = None
            /\ learner.checkpoint = None
            /\ learner.grad_accumulation = None
            /\ learner.devices = <<DefaultDevice>>
            /\ learner.callback.callback.logger_train =
                 [kind |-> "FileMetricLogger", directory |-> dir0 \o "/train"]
            /\ learner.callback.callback.logger_valid =
                 [kind |-> "FileMetricLogger", directory |-> dir0 \o "/valid"]

C1_Witness == receiver = NoReceiver /\ Built /\ dir0 = "out"

\* ------------------------------------------------------------------ C2
\* C2: after with_file_checkpointer(num_keep, recorder) on a builder of
\* directory d, all three checkpointers are set, each rooted at d/checkpoint,
\* each with that recorder, tagged "model", "optim" and "scheduler", and each
\* with retention count num_keep exactly as given (1 stays 1).
C2_FileCheckpointers ==
    (Live /\ last.with_file_checkpointer.some) =>
        LET a == last.with_file_checkpointer.value IN
        /\ builder.checkpointer_model =
             Some(ExpectedCheckpointer(dir0, "model", a.num_keep, a.recorder))
        /\ builder.checkpointer_optimizer =
             Some(ExpectedCheckpointer(dir0, "optim", a.num_keep, a.recorder))
        /\ builder.checkpointer_scheduler =
             Some(ExpectedCheckpointer(dir0, "scheduler", a.num_keep,
                                       a.recorder))

C2_Witness ==
    /\ Live
    /\ last.with_file_checkpointer = Some([num_keep |-> 1, recorder |-> "json"])
    /\ builder.checkpointer_scheduler.some
    /\ builder.checkpointer_scheduler.value.num_keep = 1

\* ------------------------------------------------------------------ C3
\* C3: build returns a Learner whose num_epochs, resume epoch, accumulation
\* count and device list are the builder's at the moment of build, whose
\* model, optimizer and scheduler are the arguments, whose callback is the
\* builder's Dashboard inside exactly one async callback wrapper, and whose
\* checkpointer of each component is present, inside its own async wrapper,
\* exactly when the builder had that component's checkpointer.
WrappedAsBuilt(fromBuilder, inLearner) ==
    /\ inLearner.some = fromBuilder.some
    /\ fromBuilder.some =>
         inLearner.value =
            [kind |-> "AsyncCheckpointer", checkpointer |-> fromBuilder.value]

C3_BuildStep ==
    (~Built /\ Built') =>
        /\ Live
        /\ buildArgs'.some
        /\ learner'.model = buildArgs'.value.model
        /\ learner'.optim = buildArgs'.value.optim
        /\ learner'.lr_scheduler = buildArgs'.value.lr_scheduler
        /\ learner'.num_epochs = builder.num_epochs
        /\ learner'.checkpoint = builder.checkpoint
        /\ learner'.grad_accumulation = builder.grad_accumulation
        /\ learner'.devices = builder.devices
        /\ learner'.callback =
             [kind |-> "AsyncTrainerCallback", callback |-> builder.dashboard]
        /\ "kind" \notin DOMAIN learner'.callback.callback
        /\ WrappedAsBuilt(builder.checkpointer_model,
                          learner'.checkpointer_model)
        /\ WrappedAsBuilt(builder.checkpointer_optimizer,
                          learner'.checkpointer_optimizer)
        /\ WrappedAsBuilt(builder.checkpointer_scheduler,
                          learner'.checkpointer_scheduler)

C3_BuildFaithful == [][C3_BuildStep]_vars

C3_Witness ==
    /\ Built
    /\ learner.checkpointer_model.some
    /\ learner.checkpoint.some
    /\ learner.grad_accumulation.some
    /\ learner.devices = <<"dev1", DefaultDevice>>
    /\ learner.model = "modelB"

\* ------------------------------------------------------------------ C4
\* C4: build initialises the run log directory/experiment.log exactly once,
\* as its first effect (before the async wrappers are created), whether or
\* not a checkpointer is configured; no other operation initialises it, and
\* nothing removes it afterwards.
ExperimentLog == dir0 \o "/experiment.log"

C4_LogState ==
    /\ ~Built => (log_files = {} /\ events = << >>)
    /\ Built =>
        /\ log_files = {ExperimentLog}
        /\ Len(events) >= 2
        /\ events[1] = [op |-> "update_log_file", arg |-> ExperimentLog]
        /\ \A i \in 2..Len(events) : events[i].op # "update_log_file"
        /\ \E i \in 2..Len(events) : events[i].op = "AsyncTrainerCallback::new"

C4_LogStep ==
    /\ log_files \subseteq log_files'
    /\ (log_files' # log_files \/ events' # events) => (~Built /\ Built')

C4_RunLog == []C4_LogState /\ [][C4_LogStep]_vars

C4_Witness ==
    /\ Built
    /\ ~learner.checkpointer_model.some
    /\ log_files = {"out/experiment.log"}

\* ------------------------------------------------------------------ C5
\* C5: Configuring -> build -> Built, Built terminal: every operation
\* happens while no Learner exists, build consumes the builder, and once the
\* Learner exists neither it nor the Dashboard's loggers change again.
C5_Phase == Built <=> ~Live

C5_Step ==
    /\ ~Built
    /\ Live
    /\ Built' => ~Live'

C5_StateMachine == []C5_Phase /\ [][C5_Step]_vars

C5_Witness ==
    /\ Built
    /\ receiver = Moved
    /\ last.metric_loggers.some
    /\ ~Live

\* ------------------------------------------------------------------ C6
\* C6 as stated: after a configuration call on a builder value b, b is still
\* usable and still carries its former configuration.
C6_ReceiverStillUsable == [][ConfigStep => receiver' = builder]_vars

\* C6 amended: a configuration call takes the builder by value and returns
\* it; afterwards the receiver is moved (not usable, so nothing can be
\* branched from it) and the returned builder carries the receiver's former
\* configuration except in the one setting of the call.
C6_ReceiverConsumed ==
    [][ConfigStep =>
        /\ receiver' = Moved
        /\ \E g \in SettingGroups : OnlyChanges(g)]_vars

C6_Witness ==
    /\ Live
    /\ receiver = Moved
    /\ builder.num_epochs = 0
    /\ builder.devices = <<DefaultDevice>>

\* ------------------------------------------------------------------ C7
\* C7: the device list of every Learner that build returns has at least one
\* element.
C7_DevicesNonEmpty == Built => Len(learner.devices) >= 1

\* ------------------------------------------------------------------ C8
\* C8: a Learner that carries a resume epoch carries all three
\* checkpointers.
C8_ResumeHasCheckpointers ==
    (Built /\ learner.checkpoint.some) =>
        /\ learner.checkpointer_model.some
        /\ learner.checkpointer_optimizer.some
        /\ learner.checkpointer_scheduler.some

\* ------------------------------------------------------------------ C9
\* C9: in every builder and every Learner the three checkpointers are all
\* present or all absent; a configuration call never removes one, build
\* hands over exactly the ones present, and with_file_checkpointer replaces
\* all three with the num_keep and recorder of that call.
C9_AllOrNoneState ==
    /\ Live => AllOrNone(builder)
    /\ Built => AllOrNone(learner)

C9_Step ==
    /\ (ConfigStep /\ builder.checkpointer_model.some) =>
          /\ builder'.checkpointer_model.some
          /\ builder'.checkpointer_optimizer.some
          /\ builder'.checkpointer_scheduler.some
    /\ (~Built /\ Built') =>
          learner'.checkpointer_scheduler.some
            = builder.checkpointer_scheduler.some
    /\ WithFileCheckpointer =>
          \A f \in {"checkpointer_model", "checkpointer_optimizer",
                    "checkpointer_scheduler"} :
              /\ builder'[f].some
              /\ builder'[f].value.num_keep =
                    last'.with_file_checkpointer.value.num_keep
              /\ builder'[f].value.recorder =
                    last'.with_file_checkpointer.value.recorder

C9_AllOrNone == []C9_AllOrNoneState /\ [][C9_Step]_vars

C9_Witness ==
    /\ Built
    /\ learner.checkpointer_model.some
    /\ learner.checkpointer_optimizer.some
    /\ learner.checkpointer_scheduler.some
    /\ learner.checkpointer_scheduler.value.checkpointer.recorder = "bin"

\* ------------------------------------------------------------------ C10
\* C10: every configuration call changes its own setting only, the
\* directory never changes, and each setting is the argument of the latest
\* call of its setter, or the default when that setter was never called.
LatestOr(opt, default) == IF opt.some THEN opt.value ELSE default

C10_LastWins ==
    Live =>
        /\ builder.directory = dir0
        /\ builder.num_epochs = LatestOr(last.num_epochs, 1)
        /\ builder.devices = LatestOr(last.devices, <<DefaultDevice>>)
        /\ builder.checkpoint = last.checkpoint
        /\ builder.grad_accumulation = last.grad_accumulation
        /\ builder.checkpointer_model.some = last.with_file_checkpointer.some
        /\ builder.checkpointer_model.some =>
             /\ builder.checkpointer_model.value.num_keep =
                  last.with_file_checkpointer.value.num_keep
             /\ builder.checkpointer_model.value.recorder =
                  last.with_file_checkpointer.value.recorder
        /\ <<builder.dashboard.logger_train, builder.dashboard.logger_valid>> =
             LatestOr(last.metric_loggers,
                <<[kind |-> "FileMetricLogger", directory |-> dir0 \o "/train"],
                  [kind |-> "FileMetricLogger", directory |-> dir0 \o "/valid"]>>)

C10_Frame ==
    /\ NumEpochs => OnlyChanges({"num_epochs"})
    /\ SetDevices => OnlyChanges({"devices"})
    /\ Checkpoint => OnlyChanges({"checkpoint"})
    /\ GradsAccumulation => OnlyChanges({"grad_accumulation"})
    /\ WithFileCheckpointer =>
          OnlyChanges({"checkpointer_model", "checkpointer_optimizer",
                       "checkpointer_scheduler"})
    /\ (MetricLoggers \/ MetricTrain \/ MetricValid \/ MetricTrainPlot
            \/ MetricValidPlot) => OnlyChanges({"dashboard"})

C10_OwnSettingOnly == []C10_LastWins /\ [][C10_Frame]_vars

C10_Witness ==
    /\ Live
    /\ last.num_epochs = Some(0)
    /\ last.checkpoint = Some(1)
    /\ last.devices = Some(<<"dev1">>)
    /\ last.grad_accumulation = None
    /\ last.with_file_checkpointer.some
    /\ Len(builder.dashboard.metrics_valid) = 1
    /\ builder.num_epochs = 0
====
